---- MODULE Spec2Model ----
(***************************************************************************)
(* A model of utils/feat_utils.py of FatesGS: the cross-view correlation   *)
(* loss get_feat_loss_corr, its multi-scale aggregator get_feat_loss and   *)
(* the output policy of UNet.forward.                                      *)
(*                                                                         *)
(* Numbers.  Pixel coordinates are kept in halves (a grid value g stands   *)
(* for g/2 pixels) so that rounding is a real operation.  Cosine           *)
(* similarities and losses are kept in tenths (One stands for 1.0).  Means *)
(* and weighted sums are exact rationals <<numerator, denominator>>.       *)
(*                                                                         *)
(* Tensors produced by the tensor engine from data the model does not      *)
(* carry (projected coordinates, camera distances, sampled correlations)   *)
(* are drawn from small sets at the step that first reads them.  The rows  *)
(* of the [n_src, m] tensors are independent of one another, so the model  *)
(* walks the source views one at a time: the occlusion row and the valid   *)
(* row of view i (both functions of grid[1 + i]), then row i of the masked *)
(* product, then the next view.                                            *)
(***************************************************************************)
EXTENDS Integers, Sequences, FiniteSets, TLC

VARIABLES
    \* ---- get_feat_loss_corr ----
    pc,             \* position in get_feat_loss_corr
    feat_B,         \* feat.size()[0], the number of reference images
    mask,           \* the mask argument, flat, 0/1 per ray
    diff_surf_pts,  \* the points argument: ray ids, one per selected point
    n_src,          \* number of source views of every image
    scale,          \* the scale argument
    accu_nums,      \* cumulative visible-point counts
    view_i,         \* index of the reference image being processed (1-based)
    loss,           \* list of per-image losses
    result,         \* the returned loss
    grid_ref,       \* grid[0]: projected coordinates in the reference view
    src_i,          \* index of the source view being processed (1-based)
    grid_i,         \* grid[1 + i]: projected coordinates in source view i
                    \* (kept for the occlusion step taken alone)
    dists_cols,     \* dists.shape[1]
    dists_i,        \* dists[i]
    vis_mask,       \* vis_masks[i]
    valid_mask,     \* valid_mask[i]
    corr_loss,      \* corr_loss[i]
    keep,           \* valid_mask * diff_mask * vis_masks, flattened, rows so far
    prod,           \* corr_loss * valid_mask * diff_mask * vis_masks, likewise
    \* ---- get_feat_loss ----
    lpc,            \* position in get_feat_loss
    pts_world,      \* the points argument of get_feat_loss: ray ids
    in_mask,        \* the mask argument of get_feat_loss (boolean tensor)
    use_mask,
    resolution,
    pts_mask,       \* [dtype, data]
    selected,       \* pts_world[pts_mask] as last evaluated
    scale_k,        \* position in the list [1, 2]
    per_scale,      \* the values get_feat_loss_corr returned, in call order
    feat_loss_value,
    weight_sum,
    lresult,
    \* ---- UNet.forward ----
    upc,            \* position in UNet.forward
    n_bottom,       \* len(bottom_filters)
    n_filters,      \* len(filters)
    n_head,         \* len(head_filters)
    multi_scale,
    stage,          \* loop counter of the running loop
    x,
    enc_out,
    dec_out,
    out

corrVars == <<pc, feat_B, mask, diff_surf_pts, n_src, scale, accu_nums, view_i,
              loss, result, grid_ref, src_i, grid_i, dists_cols, dists_i,
              vis_mask, valid_mask, corr_loss, keep, prod>>
lossVars == <<lpc, pts_world, in_mask, use_mask, resolution, pts_mask, selected,
              scale_k, per_scale, feat_loss_value, weight_sum, lresult>>
unetVars == <<upc, n_bottom, n_filters, n_head, multi_scale, stage, x,
              enc_out, dec_out, out>>
vars == <<corrVars, lossVars, unetVars>>

----------------------------------------------------------------------------
(* Bounds of the model *)

MaxB == 2          \* reference images in a batch
NRays == 2         \* rays per reference image
MaxRow == 3        \* points of one row of the occlusion step taken alone
MaxPts == 2        \* points handed to get_feat_loss
MaxBottom == 1     \* len(bottom_filters)
MaxFilters == 3    \* len(filters)
MaxHead == 2       \* len(head_filters)
MaxScale == 5      \* multi_scale

(* 1.0 in tenths: the 1 of (1 - corr) and twice the 0.5 of the cutoff *)
One == 10

(* feat2_pack.size()[2:].flip(0): width and height of the feature maps *)
FeatSize == <<2, 2>>

(* Projected coordinates of a point in a source view, in halves:           *)
(* (0.5, 1.0), (2.5, 0.0) and (-0.5, 1.0)                                  *)
SrcGrid == {<<1, 2>>, <<5, 0>>, <<-1, 2>>}
(* Projected coordinates in the reference view: (1.0, 1.0) and (-0.5, 1.0) *)
RefGrid == {<<2, 2>>, <<-1, 2>>}
(* Numbers of source views per reference image *)
SrcViews == {1, 2}
(* Distances of a point to a source camera centre *)
DistVals == {1, 2, 3}
(* Cosine similarities in tenths: 0.0, 0.5 and 0.8 *)
CorrVals == {0, 5, 8}

----------------------------------------------------------------------------
(* Arithmetic *)

Abs(a) == IF a < 0 THEN -a ELSE a

RECURSIVE SumSeq(_)
SumSeq(s) == IF s = <<>> THEN 0 ELSE Head(s) + SumSeq(Tail(s))

RatAdd(a, b) == <<a[1] * b[2] + b[1] * a[2], a[2] * b[2]>>
RatMul(a, b) == <<a[1] * b[1], a[2] * b[2]>>
RatDiv(a, b) == <<a[1] * b[2], a[2] * b[1]>>
RatEq(a, b) == a[1] * b[2] = b[1] * a[2]
RatLeq(a, b) == a[1] * b[2] <= b[1] * a[2]
Zero == <<0, 1>>

RECURSIVE RatSum(_)
RatSum(s) == IF s = <<>> THEN Zero ELSE RatAdd(Head(s), RatSum(Tail(s)))

(* torch.round on a coordinate given in halves: half to even *)
Round(h) ==
    IF h % 2 = 0 THEN h \div 2
    ELSE LET k == (h - 1) \div 2 IN IF k % 2 = 0 THEN k ELSE k + 1

Perms(n) == {p \in [1..n -> 1..n] : \A a, b \in 1..n : a # b => p[a] # p[b]}

----------------------------------------------------------------------------
(* Projective geometry utilities *)

(* grid / scale for one point: halves to pixels, then the division by scale *)
GridOverScale(g, sc) == [k \in 1..2 |-> <<g[k], 2 * sc>>]

Clamp(r) ==
    IF 10 * r[1] > 11 * r[2] THEN <<11, 10>>
    ELSE IF 10 * r[1] < -11 * r[2] THEN <<-11, 10>>
    ELSE r

(* normalize_for_grid_sample for one point: grid / size * 2 - 1, clamped *)
normalize_for_grid_sample(size, g) ==
    [k \in 1..2 |-> Clamp(<<2 * g[k][1] - g[k][2] * size[k], g[k][2] * size[k]>>)]

(* get_in_range for one point: the minimum of the four boundary tests *)
get_in_range(gn) ==
    IF \A k \in 1..2 : RatLeq(gn[k], <<1, 1>>) /\ RatLeq(<<-1, 1>>, gn[k])
    THEN 1 ELSE 0

----------------------------------------------------------------------------
(* Occlusion resolution, lines 309-322 *)

(* uv = grid[1:].squeeze(2).round().long(), one row *)
RoundGrid(g) == [j \in 1..Len(g) |-> <<Round(g[j][1]), Round(g[j][2])>>]

(* torch.sort(dists[i]): the sort is not stable, equal distances come in    *)
(* any order                                                               *)
SortedIndices(d) ==
    {p \in Perms(Len(d)) : \A a, b \in 1..Len(d) : a < b => d[p[a]] <= d[p[b]]}

LexLess(p, q) == p[1] < q[1] \/ (p[1] = q[1] /\ p[2] < q[2])

(* torch.unique(rows, return_counts=True, dim=0): the distinct rows in      *)
(* ascending lexicographic order (unique along a dimension sorts whatever   *)
(* the sorted flag says) and how often each occurs                         *)
RECURSIVE SortRows(_)
SortRows(S) ==
    IF S = {} THEN <<>>
    ELSE LET lo == CHOOSE p \in S : \A q \in S \ {p} : LexLess(p, q)
         IN <<lo>> \o SortRows(S \ {lo})

UniqueCounts(rows) ==
    LET u == SortRows({rows[k] : k \in 1..Len(rows)})
    IN [g \in 1..Len(u) |-> Cardinality({k \in 1..Len(rows) : rows[k] = u[g]})]

(* torch.cumsum *)
CumSum(c) == [k \in 1..Len(c) |-> SumSeq(SubSeq(c, 1, k))]

(* One row of vis_masks from the rounded pixels of the row and the order    *)
(* torch.sort gave the distances                                           *)
VisMask(uv, sorted_indices) ==
    LET m == Len(uv)
        sorted_uv == [k \in 1..m |-> uv[sorted_indices[k]]]
        cnts == <<0>> \o UniqueCounts(sorted_uv)
        cum == CumSum(cnts)
        unique_index == SubSeq(cum, 1, Len(cum) - 1)
        \* positions of the tensor count from 0
        sorted_vis_mask ==
            [k \in 1..m |->
                IF \E g \in 1..Len(unique_index) : unique_index[g] = k - 1
                THEN 1 ELSE 0]
        \* torch.sort(sorted_indices): the inverse permutation
        indices == [j \in 1..m |-> CHOOSE k \in 1..m : sorted_indices[k] = j]
    IN [j \in 1..m |-> sorted_vis_mask[indices[j]]]

----------------------------------------------------------------------------
(* Gathering and the masked product, lines 328-344, one row *)

ValidMask(gref, gsrc, sc) ==
    [j \in 1..Len(gref) |->
        get_in_range(normalize_for_grid_sample(FeatSize, GridOverScale(gref[j], sc)))
        * get_in_range(normalize_for_grid_sample(FeatSize, GridOverScale(gsrc[j], sc)))
        > 0]

CorrLoss(corr) == [j \in 1..Len(corr) |-> Abs(One - corr[j])]

(* DiffMask with the cutoff switched off, and with the cutoff inclusive *)
DiffMaskOff(cl) == [j \in 1..Len(cl) |-> TRUE]
DiffMaskLeq(cl) == [j \in 1..Len(cl) |-> 2 * cl[j] <= One]

(* diff_mask = corr_loss < 0.5 *)
DiffMask(cl) == [j \in 1..Len(cl) |-> 2 * cl[j] < One]

B2I(b) == IF b THEN 1 ELSE 0

KeepRow(valid, diff, vis) ==
    [j \in 1..Len(valid) |-> B2I(valid[j]) * B2I(diff[j]) * B2I(vis[j] > 0)]

ProdRow(cl, valid, diff, vis) ==
    [j \in 1..Len(cl) |-> cl[j] * B2I(valid[j]) * B2I(diff[j]) * B2I(vis[j] > 0)]

(* Mean taken over the non-zero entries only *)
MeanNonZero(t) == <<SumSeq(t), Cardinality({k \in 1..Len(t) : t[k] # 0})>>

(* tensor.mean() *)
Mean(t) == <<SumSeq(t), Len(t)>>

----------------------------------------------------------------------------
(* get_feat_loss_corr, lines 280-349 *)

(* The ids of the rays a flat 0/1 mask selects, in order *)
RECURSIVE Select(_, _)
Select(pts, msk) ==
    IF pts = <<>> THEN <<>>
    ELSE (IF Head(msk) # 0 THEN <<Head(pts)>> ELSE <<>>)
         \o Select(Tail(pts), Tail(msk))

(* sample_mask = mask.view(B, -1); hit_nums = sample_mask.sum(-1) *)
HitNums(msk, b) ==
    LET n == Len(msk) \div b
    IN [r \in 1..b |-> SumSeq(SubSeq(msk, (r - 1) * n + 1, r * n))]

(* accu_nums = [0] + hit_nums.cumsum(0).tolist() *)
AccuNums(msk, b) == <<0>> \o CumSum(HitNums(msk, b))

(* slices[view_i] *)
SliceStart == accu_nums[view_i]
SliceStop == accu_nums[view_i + 1]
(* diff_surf_pts[slice_] *)
diff_surf_pts_slice == SubSeq(diff_surf_pts, SliceStart + 1, SliceStop)

(* diff_mask row of the source view in hand *)
diff_mask == DiffMask(corr_loss)

(* CorrEnter without the early return of lines 281-282 *)
CorrEnterNoReturn ==
    /\ pc = "entry"
    /\ accu_nums' = AccuNums(mask, feat_B)
    /\ view_i' = 1
    /\ loss' = <<>>
    /\ pc' = "loop"
    /\ UNCHANGED <<feat_B, mask, diff_surf_pts, n_src, scale, result, grid_ref,
                   src_i, grid_i, dists_cols, dists_i, vis_mask, valid_mask,
                   corr_loss, keep, prod>>
    /\ UNCHANGED <<lossVars, unetVars>>

(* Lines 281-290: the early return, else the slices *)
CorrEnter ==
    /\ pc = "entry"
    /\ IF SumSeq(mask) = 0
       THEN /\ result' = Zero
            /\ pc' = "done"
            /\ UNCHANGED <<accu_nums, view_i, loss>>
       ELSE /\ accu_nums' = AccuNums(mask, feat_B)
            /\ view_i' = 1
            /\ loss' = <<>>
            /\ pc' = "loop"
            /\ UNCHANGED result
    /\ UNCHANGED <<feat_B, mask, diff_surf_pts, n_src, scale, grid_ref, src_i,
                   grid_i, dists_cols, dists_i, vis_mask, valid_mask, corr_loss,
                   keep, prod>>
    /\ UNCHANGED <<lossVars, unetVars>>

(* Lines 292-307 and 345-347: the next reference image.  An image with     *)
(* points is projected (grid[0] drawn here, the source rows when read) and  *)
(* dists is computed from diff_surf_pts; an image without points appends    *)
(* zero.                                                                   *)
ImageStep ==
    /\ pc = "loop"
    /\ view_i <= Len(accu_nums) - 1
    /\ IF SliceStart < SliceStop
       THEN /\ \E g \in [1..(SliceStop - SliceStart) -> RefGrid] : grid_ref' = g
            /\ dists_cols' = Len(diff_surf_pts)
            /\ src_i' = 1
            /\ pc' = "vis"
            /\ UNCHANGED <<view_i, loss>>
       ELSE /\ loss' = Append(loss, Zero)
            /\ view_i' = view_i + 1
            /\ grid_ref' = <<>>
            /\ UNCHANGED <<dists_cols, src_i, pc>>
    /\ vis_mask' = <<>>
    /\ valid_mask' = <<>>
    /\ corr_loss' = <<>>
    /\ keep' = <<>>
    /\ prod' = <<>>
    /\ UNCHANGED <<feat_B, mask, diff_surf_pts, n_src, scale, accu_nums, result,
                   grid_i, dists_i>>
    /\ UNCHANGED <<lossVars, unetVars>>

(* Lines 309-322, iteration i of the loop, and row i of lines 329-331.     *)
(* sorted_indices is a permutation of the columns of dists, one per point  *)
(* of diff_surf_pts (line 307), and uv[i, sorted_indices] raises when it   *)
(* holds an index past the rows of uv[i].  grid[1 + i] is read for uv[i]   *)
(* and for valid_mask[i], dists[i] for the order of the sort.              *)
VisStep ==
    /\ pc = "vis"
    /\ LET m == Len(grid_ref)
       IN IF dists_cols > m
          THEN /\ pc' = "raised"
               /\ UNCHANGED <<vis_mask, valid_mask>>
          ELSE LET orders == UNION {SortedIndices(d) :
                                       d \in [1..dists_cols -> DistVals]}
               IN \E g \in [1..m -> SrcGrid], sorted_indices \in orders :
                     /\ vis_mask' = VisMask(RoundGrid(g), sorted_indices)
                     /\ valid_mask' = ValidMask(grid_ref, g, scale)
                     /\ pc' = "gather"
    /\ UNCHANGED <<feat_B, mask, diff_surf_pts, n_src, scale, accu_nums, view_i,
                   loss, result, grid_ref, src_i, grid_i, dists_cols, dists_i,
                   corr_loss, keep, prod>>
    /\ UNCHANGED <<lossVars, unetVars>>

(* Lines 328-344, row i of the masked product *)
GatherStep ==
    /\ pc = "gather"
    /\ \E corr \in [1..Len(grid_ref) -> CorrVals] :
          LET cl == CorrLoss(corr)
              diff == DiffMask(cl)
          IN /\ corr_loss' = cl
             /\ keep' = keep \o KeepRow(valid_mask, diff, vis_mask)
             /\ prod' = prod \o ProdRow(cl, valid_mask, diff, vis_mask)
    /\ pc' = "row"
    /\ UNCHANGED <<feat_B, mask, diff_surf_pts, n_src, scale, accu_nums, view_i,
                   loss, result, grid_ref, src_i, grid_i, dists_cols, dists_i,
                   vis_mask, valid_mask>>
    /\ UNCHANGED <<lossVars, unetVars>>

(* The next source view, or after the last one line 344's mean and line     *)
(* 347's append                                                            *)
SampleLoss ==
    /\ pc = "row"
    /\ IF src_i < n_src
       THEN /\ src_i' = src_i + 1
            /\ pc' = "vis"
            /\ UNCHANGED <<view_i, loss>>
       ELSE /\ loss' = Append(loss, Mean(prod))
            /\ view_i' = view_i + 1
            /\ pc' = "loop"
            /\ UNCHANGED src_i
    /\ vis_mask' = <<>>
    /\ valid_mask' = <<>>
    /\ corr_loss' = <<>>
    /\ UNCHANGED <<feat_B, mask, diff_surf_pts, n_src, scale, accu_nums, result,
                   grid_ref, grid_i, dists_cols, dists_i, keep, prod>>
    /\ UNCHANGED <<lossVars, unetVars>>

(* Lines 348-349 *)
Aggregate ==
    /\ pc = "loop"
    /\ view_i > Len(accu_nums) - 1
    /\ result' = RatDiv(RatSum(loss), <<Len(loss), 1>>)
    /\ pc' = "done"
    /\ UNCHANGED <<feat_B, mask, diff_surf_pts, n_src, scale, accu_nums, view_i,
                   loss, grid_ref, src_i, grid_i, dists_cols, dists_i, vis_mask,
                   valid_mask, corr_loss, keep, prod>>
    /\ UNCHANGED <<lossVars, unetVars>>

(* The locals of get_feat_loss_corr before the call *)
CorrLocalsInit ==
    /\ accu_nums = <<>>
    /\ view_i = 0
    /\ loss = <<>>
    /\ result = <<>>
    /\ grid_ref = <<>>
    /\ src_i = 0
    /\ grid_i = <<>>
    /\ dists_cols = 0
    /\ dists_i = <<>>
    /\ vis_mask = <<>>
    /\ valid_mask = <<>>
    /\ corr_loss = <<>>
    /\ keep = <<>>
    /\ prod = <<>>

LossIdle ==
    /\ lpc = "idle"
    /\ pts_world = <<>>
    /\ in_mask = <<>>
    /\ use_mask = TRUE
    /\ resolution = 0
    /\ pts_mask = <<>>
    /\ selected = <<>>
    /\ scale_k = 0
    /\ per_scale = <<>>
    /\ feat_loss_value = Zero
    /\ weight_sum = Zero
    /\ lresult = <<>>

UNetIdle ==
    /\ upc = "idle"
    /\ n_bottom = 0
    /\ n_filters = 0
    /\ n_head = 0
    /\ multi_scale = 0
    /\ stage = 0
    /\ x = <<>>
    /\ enc_out = <<>>
    /\ dec_out = <<>>
    /\ out = <<>>

(* A call of get_feat_loss_corr on a packed batch: the points are the rays  *)
(* the mask marks, image after image                                       *)
Init ==
    /\ pc = "entry"
    /\ feat_B \in 1..MaxB
    /\ mask \in [1..(feat_B * NRays) -> {0, 1}]
    /\ diff_surf_pts = Select([r \in 1..(feat_B * NRays) |-> r], mask)
    /\ n_src \in SrcViews
    /\ scale = 2
    /\ CorrLocalsInit
    /\ LossIdle
    /\ UNetIdle

Next ==
    \/ CorrEnter
    \/ ImageStep
    \/ VisStep
    \/ GatherStep
    \/ SampleLoss
    \/ Aggregate

Spec == Init /\ [][Next]_vars

----------------------------------------------------------------------------
(* Properties of get_feat_loss_corr *)

Half == <<1, 2>>

(* The entries of prod and keep that belong to the source view in hand *)
RowOf(t) == SubSeq(t, Len(t) - Len(grid_ref) + 1, Len(t))

(* A per-image mean has just been appended to loss *)
MeanTaken == pc = "loop" /\ prod # <<>>

(* C2: with an all-false mask get_feat_loss_corr returns exactly 0 in its   *)
(* first step: it never raises, and no slices, projection, masked product  *)
(* or per-image loss are ever computed.                                    *)
C2_AllFalseReturnsZero ==
    (SumSeq(mask) = 0 /\ pc # "entry")
        => /\ pc = "done"
           /\ result = Zero
           /\ accu_nums = <<>>
           /\ grid_ref = <<>>
           /\ prod = <<>>
           /\ loss = <<>>

C2_Witness ==
    pc = "done" /\ SumSeq(mask) = 0 /\ feat_B = MaxB /\ n_src = 2 /\ result = Zero

(* C3: every entry of the masked product is between 0 and 0.5, and so is    *)
(* every per-image loss and the returned batch loss.                       *)
C3_LossBounded ==
    /\ \A k \in 1..Len(prod) : 0 <= prod[k] /\ 2 * prod[k] <= One
    /\ \A b \in 1..Len(loss) :
          RatLeq(Zero, <<loss[b][1], One * loss[b][2]>>)
          /\ RatLeq(<<loss[b][1], One * loss[b][2]>>, Half)
    /\ pc = "done"
          => RatLeq(Zero, <<result[1], One * result[2]>>)
             /\ RatLeq(<<result[1], One * result[2]>>, Half)

C3_Witness ==
    pc = "done" /\ result[1] > 0 /\ \E k \in 1..Len(prod) : prod[k] > 0

(* C4 as claimed: the per-image loss is the sum of the contributing losses  *)
(* divided by the number of (point, view) pairs that satisfy the three     *)
(* masks.                                                                  *)
C4_MeanOverMaskedPairs ==
    (MeanTaken /\ SumSeq(keep) > 0)
        => RatEq(loss[Len(loss)], <<SumSeq(prod), SumSeq(keep)>>)

(* C4, amended: a pair contributes its loss when it satisfies the valid,    *)
(* under-threshold and occlusion-visible masks and 0 otherwise, and the    *)
(* per-image loss is the sum of the contributions divided by the number of *)
(* all (point, view) pairs of the image, n_src * m.                        *)
C4_MeanOverAllPairs ==
    /\ pc = "row" =>
          LET valid == valid_mask
              diff == diff_mask
              row == RowOf(prod)
          IN \A j \in 1..Len(grid_ref) :
                row[j] = IF valid[j] /\ diff[j] /\ vis_mask[j] = 1
                         THEN corr_loss[j] ELSE 0
    /\ MeanTaken =>
          /\ Len(prod) = n_src * Len(grid_ref)
          /\ loss[Len(loss)] = <<SumSeq(prod), n_src * Len(grid_ref)>>

C4_Witness ==
    /\ MeanTaken
    /\ n_src = 2
    /\ Len(grid_ref) = 2
    /\ SumSeq(prod) > 0
    /\ SumSeq(keep) < Len(keep)

(* C5 as claimed: a valid, occlusion-visible contribution is zeroed exactly *)
(* when its loss exceeds 0.5; a loss of at most 0.5, 0.5 included, is kept. *)
C5_ZeroedIffAboveHalf ==
    pc = "row" =>
       LET valid == valid_mask
           row == RowOf(prod)
       IN \A j \in 1..Len(grid_ref) :
             (valid[j] /\ vis_mask[j] = 1)
                => /\ (row[j] = 0) <=> (2 * corr_loss[j] > One)
                   /\ (2 * corr_loss[j] <= One) => row[j] = corr_loss[j]

(* C5, amended: a valid, occlusion-visible contribution is zeroed exactly   *)
(* when its loss is 0.5 or more; it is kept exactly when its loss is       *)
(* strictly below 0.5.                                                     *)
C5_ZeroedIffHalfOrMore ==
    pc = "row" =>
       LET valid == valid_mask
           row == RowOf(prod)
       IN \A j \in 1..Len(grid_ref) :
             (valid[j] /\ vis_mask[j] = 1)
                => /\ (row[j] = 0) <=> (2 * corr_loss[j] >= One)
                   /\ (2 * corr_loss[j] < One) => row[j] = corr_loss[j]

C5_Witness ==
    /\ pc = "row"
    /\ \E j \in 1..Len(grid_ref) :
          /\ valid_mask[j]
          /\ vis_mask[j] = 1
          /\ 2 * corr_loss[j] = One
          /\ RowOf(prod)[j] = 0
    /\ \E j \in 1..Len(grid_ref) :
          /\ valid_mask[j]
          /\ vis_mask[j] = 1
          /\ 2 * corr_loss[j] < One
          /\ RowOf(prod)[j] = corr_loss[j]

(* C6: with a visible point somewhere the call returns, and what it returns *)
(* is the sum of the per-image losses divided by the number of reference   *)
(* images, an image without visible points counting as 0.                  *)
C6_UnweightedMean ==
    SumSeq(mask) > 0
        => /\ pc # "raised"
           /\ pc = "done" =>
                 /\ Len(loss) = feat_B
                 /\ \A b \in 1..feat_B :
                       HitNums(mask, feat_B)[b] = 0 => loss[b] = Zero
                 /\ RatEq(result, RatDiv(RatSum(loss), <<feat_B, 1>>))

(* C10: in every reference image the distances sorted in the occlusion step *)
(* are those of the image's own points, one per point of the slice, and    *)
(* the step raises no indexing error.                                      *)
C10_DistsOfSlice ==
    /\ pc # "raised"
    /\ pc \in {"vis", "gather", "row"} => dists_cols = Len(grid_ref)

----------------------------------------------------------------------------
(* The occlusion step on one row, lines 309-322, taken alone: the rounded   *)
(* pixels and the distances of the m points of a slice in one source view  *)

InitVis ==
    /\ pc = "occlusion"
    /\ \E m \in 1..MaxRow :
          /\ grid_i \in [1..m -> SrcGrid]
          /\ dists_i \in [1..m -> DistVals]
          /\ mask = [r \in 1..m |-> 1]
          /\ diff_surf_pts = [r \in 1..m |-> r]
    /\ feat_B = 1
    /\ n_src = 1
    /\ scale = 2
    /\ accu_nums = <<>>
    /\ view_i = 0
    /\ loss = <<>>
    /\ result = <<>>
    /\ grid_ref = <<>>
    /\ src_i = 1
    /\ dists_cols = Len(dists_i)
    /\ vis_mask = <<>>
    /\ valid_mask = <<>>
    /\ corr_loss = <<>>
    /\ keep = <<>>
    /\ prod = <<>>
    /\ LossIdle
    /\ UNetIdle

OcclusionRow ==
    /\ pc = "occlusion"
    /\ \E sorted_indices \in SortedIndices(dists_i) :
          vis_mask' = VisMask(RoundGrid(grid_i), sorted_indices)
    /\ pc' = "occluded"
    /\ UNCHANGED <<feat_B, mask, diff_surf_pts, n_src, scale, accu_nums, view_i,
                   loss, result, grid_ref, src_i, grid_i, dists_cols, dists_i,
                   valid_mask, corr_loss, keep, prod>>
    /\ UNCHANGED <<lossVars, unetVars>>

NextVis == OcclusionRow

SpecVis == InitVis /\ [][NextVis]_vars

(* C1: in every source view, among the points whose projected coordinates   *)
(* round to one pixel exactly the one nearest to the camera centre is      *)
(* visible, and a point alone on its pixel is visible.  Stated for rows of *)
(* pairwise different distances, where the nearest point of a pixel is one *)
(* point and the order of the sort is fixed.                               *)
C1_NearestOfPixelVisible ==
    (pc = "occluded"
     /\ \A j, k \in 1..Len(dists_i) : j # k => dists_i[j] # dists_i[k])
       => LET uv == RoundGrid(grid_i)
              m == Len(uv)
          IN \A j \in 1..m :
                vis_mask[j] = 1 <=>
                   \A k \in 1..m : uv[k] = uv[j] => dists_i[j] <= dists_i[k]

----------------------------------------------------------------------------
(* get_feat_loss, lines 352-389 *)

(* for scale in [1, 2] *)
Scales == <<1, 2>>
(* The resolution argument: the default 2 and one other value *)
Resolutions == {1, 2}

(* tensor[index]: a boolean index selects the entries it marks, an integer  *)
(* index gathers the rows it names, an index of another dtype is an        *)
(* IndexError                                                              *)
TensorIndex(t, index) ==
    IF index.dtype = "bool"
    THEN [ok |-> TRUE, val |-> Select(t, index.data)]
    ELSE IF index.dtype = "long"
    THEN [ok |-> \A k \in 1..Len(index.data) : index.data[k] < Len(t),
          val |-> [k \in 1..Len(index.data) |-> t[index.data[k] + 1]]]
    ELSE [ok |-> FALSE, val |-> <<>>]

(* torch.ones_like(pts_world)[:, 0]: ones of the dtype of pts_world *)
OnesLike(t) == [dtype |-> "float", data |-> [k \in 1..Len(t) |-> 1]]

(* The weight of a scale with every scale weighted alike *)
WeightOne(sc) == <<1, 1>>

(* 1.0 / scale *)
Weight(sc) == <<1, sc>>

(* Lines 353-374 *)
LossStart ==
    /\ lpc = "start"
    /\ pts_mask' = IF use_mask THEN [dtype |-> "bool", data |-> in_mask]
                   ELSE OnesLike(pts_world)
    /\ feat_loss_value' = Zero
    /\ weight_sum' = Zero
    /\ scale_k' = 1
    /\ lpc' = "scale"
    /\ UNCHANGED <<pts_world, in_mask, use_mask, resolution, selected, per_scale,
                   lresult>>
    /\ UNCHANGED <<corrVars, unetVars>>

(* Lines 376-386: the arguments of the call of get_feat_loss_corr, and the  *)
(* call                                                                    *)
LossCall ==
    /\ lpc = "scale"
    /\ scale_k <= Len(Scales)
    /\ LET grid_scale == IF resolution = 2 THEN Scales[scale_k]
                         ELSE 2 * Scales[scale_k]
           picked == TensorIndex(pts_world, pts_mask)
       IN IF picked.ok
          THEN /\ selected' = picked.val
               /\ diff_surf_pts' = picked.val
               /\ mask' = pts_mask.data
               /\ feat_B' = 1
               /\ scale' = grid_scale
               /\ pc' = "entry"
               /\ lpc' = "call"
          ELSE /\ lpc' = "raised"
               /\ UNCHANGED <<selected, diff_surf_pts, mask, feat_B, scale, pc>>
    /\ UNCHANGED <<pts_world, in_mask, use_mask, resolution, pts_mask, scale_k,
                   per_scale, feat_loss_value, weight_sum, lresult>>
    /\ UNCHANGED <<n_src, accu_nums, view_i, loss, result, grid_ref, src_i, grid_i,
                   dists_cols, dists_i, vis_mask, valid_mask, corr_loss, keep,
                   prod>>
    /\ UNCHANGED unetVars

(* Lines 386-387: the returned loss is weighted and added *)
LossAccumulate ==
    /\ lpc = "call"
    /\ pc \in {"done", "raised"}
    /\ IF pc = "raised"
       THEN /\ lpc' = "raised"
            /\ UNCHANGED <<per_scale, feat_loss_value, weight_sum, scale_k>>
       ELSE /\ per_scale' = Append(per_scale, result)
            /\ feat_loss_value' =
                  RatAdd(feat_loss_value, RatMul(Weight(Scales[scale_k]), result))
            /\ weight_sum' = RatAdd(weight_sum, Weight(Scales[scale_k]))
            /\ scale_k' = scale_k + 1
            /\ lpc' = "scale"
    /\ pc' = "idle"
    /\ accu_nums' = <<>>
    /\ view_i' = 0
    /\ loss' = <<>>
    /\ result' = <<>>
    /\ grid_ref' = <<>>
    /\ src_i' = 0
    /\ dists_cols' = 0
    /\ keep' = <<>>
    /\ prod' = <<>>
    /\ UNCHANGED <<grid_i, dists_i, vis_mask, valid_mask, corr_loss>>
    /\ UNCHANGED <<feat_B, mask, diff_surf_pts, n_src, scale>>
    /\ UNCHANGED <<pts_world, in_mask, use_mask, resolution, pts_mask, selected,
                   lresult>>
    /\ UNCHANGED unetVars

(* Line 389 *)
LossReturn ==
    /\ lpc = "scale"
    /\ scale_k > Len(Scales)
    /\ lresult' = RatDiv(feat_loss_value, weight_sum)
    /\ lpc' = "done"
    /\ UNCHANGED <<pts_world, in_mask, use_mask, resolution, pts_mask, selected,
                   scale_k, per_scale, feat_loss_value, weight_sum>>
    /\ UNCHANGED <<corrVars, unetVars>>

(* A call of get_feat_loss: one reference view, a stack of one source      *)
(* view, the points of the rays and a boolean mask over them               *)
InitLoss ==
    /\ lpc = "start"
    /\ \E n \in 1..MaxPts :
          /\ pts_world = [r \in 1..n |-> r]
          /\ in_mask \in [1..n -> {0, 1}]
    /\ use_mask \in BOOLEAN
    /\ resolution \in Resolutions
    /\ pts_mask = <<>>
    /\ selected = <<>>
    /\ scale_k = 0
    /\ per_scale = <<>>
    /\ feat_loss_value = Zero
    /\ weight_sum = Zero
    /\ lresult = <<>>
    /\ pc = "idle"
    /\ feat_B = 0
    /\ mask = <<>>
    /\ diff_surf_pts = <<>>
    /\ n_src = 1
    /\ scale = 0
    /\ CorrLocalsInit
    /\ UNetIdle

NextLoss ==
    \/ LossStart
    \/ LossCall
    \/ CorrEnter
    \/ ImageStep
    \/ VisStep
    \/ GatherStep
    \/ SampleLoss
    \/ Aggregate
    \/ LossAccumulate
    \/ LossReturn

SpecLoss == InitLoss /\ [][NextLoss]_vars

(* C7: get_feat_loss calls get_feat_loss_corr once per scale of [1, 2] and  *)
(* returns (L1 + L2 / 2) / (1 + 1 / 2) for the two values L1, L2 it got,    *)
(* which is L when both are L.                                             *)
C7_WeightedAverage ==
    lpc = "done" =>
       /\ Len(per_scale) = 2
       /\ LET L1 == per_scale[1]
              L2 == per_scale[2]
          IN /\ RatEq(lresult, <<2 * L1[1] * L2[2] + L2[1] * L1[2],
                                 3 * L1[2] * L2[2]>>)
             /\ RatEq(L1, L2) => RatEq(lresult, L1)

C7_Witness ==
    /\ lpc = "done"
    /\ per_scale[1][1] > 0
    /\ per_scale[2][1] > 0
    /\ ~RatEq(per_scale[1], per_scale[2])

(* C9: with use_mask false every point of pts_world is selected, in order,  *)
(* and handed to get_feat_loss_corr, and the call does not raise.          *)
C9_AllVisibleMask ==
    ~use_mask =>
       /\ lpc # "raised"
       /\ lpc \in {"call", "done"} => selected = pts_world

----------------------------------------------------------------------------
(* UNet.forward, lines 234-254.  A tensor is known by the stage that made   *)
(* it: its path, the index of the stage in the path, and for a decoder     *)
(* stage the encoder stage whose output it was concatenated with.          *)

Tensor(path, idx, skip) == [path |-> path, idx |-> idx, skip |-> skip]

(* The first k entries of a list *)
FirstEntries(l, k) == SubSeq(l, 1, IF k > Len(l) THEN Len(l) ELSE k)

(* l[-k:] *)
LastEntries(l, k) ==
    IF k = 0 \/ k >= Len(l) THEN l ELSE SubSeq(l, Len(l) - k + 1, Len(l))

(* len(self.dec_blocks): one block per entry of filters[-2::-1] *)
NDec == IF n_filters > 1 THEN n_filters - 1 ELSE 0

(* Lines 235-237 *)
BottomStep ==
    /\ upc = "bottom"
    /\ IF stage < n_bottom
       THEN /\ x' = Tensor("bottom", stage + 1, 0)
            /\ stage' = stage + 1
            /\ UNCHANGED <<upc, enc_out>>
       ELSE /\ enc_out' = <<>>
            /\ stage' = 0
            /\ upc' = "enc"
            /\ UNCHANGED x
    /\ UNCHANGED <<n_bottom, n_filters, n_head, multi_scale, dec_out, out>>
    /\ UNCHANGED <<corrVars, lossVars>>

(* Lines 238-241 *)
EncStep ==
    /\ upc = "enc"
    /\ IF stage < n_filters
       THEN /\ x' = Tensor("enc", stage + 1, 0)
            /\ enc_out' = Append(enc_out, x')
            /\ stage' = stage + 1
            /\ UNCHANGED <<upc, dec_out>>
       ELSE /\ dec_out' = <<x>>
            /\ stage' = 0
            /\ upc' = "dec"
            /\ UNCHANGED <<x, enc_out>>
    /\ UNCHANGED <<n_bottom, n_filters, n_head, multi_scale, out>>
    /\ UNCHANGED <<corrVars, lossVars>>

(* Lines 242-249: stage i concatenates with enc_out[-2-i].  A block of two  *)
(* layers and one of three (dec > 0) append the same one output.           *)
DecStep ==
    /\ upc = "dec"
    /\ IF stage < NDec
       THEN /\ x' = Tensor("dec", stage + 1, enc_out[Len(enc_out) - 1 - stage].idx)
            /\ dec_out' = Append(dec_out, x')
            /\ stage' = stage + 1
            /\ UNCHANGED upc
       ELSE /\ stage' = 0
            /\ upc' = "head"
            /\ UNCHANGED <<x, dec_out>>
    /\ UNCHANGED <<n_bottom, n_filters, n_head, multi_scale, enc_out, out>>
    /\ UNCHANGED <<corrVars, lossVars>>

(* Lines 250-252 *)
HeadStep ==
    /\ upc = "head"
    /\ IF stage < n_head
       THEN /\ x' = Tensor("head", stage + 1, 0)
            /\ dec_out' = Append(dec_out, x')
            /\ stage' = stage + 1
            /\ UNCHANGED upc
       ELSE /\ upc' = "ret"
            /\ UNCHANGED <<x, dec_out, stage>>
    /\ UNCHANGED <<n_bottom, n_filters, n_head, multi_scale, enc_out, out>>
    /\ UNCHANGED <<corrVars, lossVars>>

(* Lines 253-254 *)
UNetReturn ==
    /\ upc = "ret"
    /\ out' = IF multi_scale = 1
              THEN [kind |-> "tensor", val |-> <<x>>]
              ELSE [kind |-> "list", val |-> LastEntries(dec_out, multi_scale)]
    /\ upc' = "done"
    /\ UNCHANGED <<n_bottom, n_filters, n_head, multi_scale, stage, x,
                   enc_out, dec_out>>
    /\ UNCHANGED <<corrVars, lossVars>>

(* A call of forward on a constructed network; FeatExt's is bottom_filters  *)
(* = [], filters = [32, 64, 128], head_filters = [], multi_scale = 3        *)
InitUNet ==
    /\ upc = "bottom"
    /\ n_bottom \in 0..MaxBottom
    /\ n_filters \in 0..MaxFilters
    /\ n_head \in 0..MaxHead
    /\ multi_scale \in 1..MaxScale
    /\ stage = 0
    /\ x = Tensor("input", 0, 0)
    /\ enc_out = <<>>
    /\ dec_out = <<>>
    /\ out = <<>>
    /\ pc = "idle"
    /\ feat_B = 0
    /\ mask = <<>>
    /\ diff_surf_pts = <<>>
    /\ n_src = 0
    /\ scale = 0
    /\ CorrLocalsInit
    /\ LossIdle

NextUNet ==
    \/ BottomStep
    \/ EncStep
    \/ DecStep
    \/ HeadStep
    \/ UNetReturn

SpecUNet == InitUNet /\ [][NextUNet]_vars

(* The stage outputs of a network, by its configuration *)
EncoderOutputs == [j \in 1..n_filters |-> Tensor("enc", j, 0)]
DecoderOutputs == [i \in 1..NDec |-> Tensor("dec", i, n_filters - i)]
HeadOutputs == [j \in 1..n_head |-> Tensor("head", j, 0)]
(* What enters the decoder path: the last encoder output, or with no        *)
(* encoder stage what left the bottom path                                 *)
EncoderEnd ==
    IF n_filters > 0 THEN Tensor("enc", n_filters, 0)
    ELSE IF n_bottom > 0 THEN Tensor("bottom", n_bottom, 0)
    ELSE Tensor("input", 0, 0)
AllStageOutputs == EncoderOutputs \o DecoderOutputs \o HeadOutputs
FinalOutput ==
    IF AllStageOutputs = <<>> THEN EncoderEnd
    ELSE AllStageOutputs[Len(AllStageOutputs)]

(* C8 as claimed: multi_scale = 1 returns the final output alone, and       *)
(* multi_scale = k > 1, k up to the number of encoder, decoder and head    *)
(* stages, returns the last k of [encoder outputs, decoder outputs, head   *)
(* outputs].                                                               *)
C8_LastOfAllStages ==
    upc = "done" =>
       /\ multi_scale = 1 => out = [kind |-> "tensor", val |-> <<FinalOutput>>]
       /\ (multi_scale > 1 /\ multi_scale <= Len(AllStageOutputs))
             => out = [kind |-> "list",
                       val |-> LastEntries(AllStageOutputs, multi_scale)]

(* C8, amended: multi_scale = 1 returns the final output alone, and         *)
(* multi_scale = k > 1 returns the last k of [what entered the decoder     *)
(* path, decoder outputs, head outputs], all 1 + decoder stages + head     *)
(* stages of them when k is larger; no earlier encoder output is returned. *)
C8_LastOfDecoderList ==
    upc = "done" =>
       LET held == <<EncoderEnd>> \o DecoderOutputs \o HeadOutputs
       IN /\ multi_scale = 1 => out = [kind |-> "tensor", val |-> <<FinalOutput>>]
          /\ multi_scale > 1 =>
                /\ out.kind = "list"
                /\ Len(out.val) = IF multi_scale < Len(held) THEN multi_scale
                                  ELSE Len(held)
                /\ \A k \in 1..Len(out.val) :
                      out.val[k] = held[Len(held) - Len(out.val) + k]

C8_Witness ==
    /\ upc = "done"
    /\ n_filters = 3
    /\ n_head = 0
    /\ multi_scale = 4
    /\ out.kind = "list"
    /\ Len(out.val) = 3
    /\ out.val[1] = Tensor("enc", 3, 0)

====
